---- MODULE Spec2Model ----
(***************************************************************************)
(* Model of app.py: the Microburbs mini dashboard proxy.                   *)
(*                                                                         *)
(* Two facade handlers (suburb_market, property_market) build a list of    *)
(* parameter variants and hand it to _first_json, which tries every        *)
(* variant against API_BASES x ("query", "xapikey", "bearer") serially     *)
(* through _call, and returns on the first response that is accepted and   *)
(* whose body survives _strict_json.                                       *)
(*                                                                         *)
(* Strings the code manipulates character by character (the query          *)
(* arguments, the API key) are sequences of one-character strings.         *)
(* A JSON object is a sequence of members [key, fin, num]; {} is << >>.    *)
(***************************************************************************)
EXTENDS Naturals, Integers, Sequences, FiniteSets, TLC

VARIABLES
    API_KEY,     \* os.environ.get("MICROBURBS_API_KEY", ""), fixed at start-up
    request,     \* the incoming call: which entry point, and request.args
    pc,          \* position of the handling thread
    path,        \* _first_json's path argument
    variants,    \* _first_json's variants argument
    vi,          \* index of pv in variants (outer loop)
    ai,          \* index of (base, style) in attempts (inner loop)
    last,        \* _first_json's local `last`
    result,      \* what _first_json returned
    http,        \* the facade's HTTP response
    calls,       \* every _call made so far, in order (what upstream received)
    upstream     \* what upstream did: the latest answer and summary marks

vars == <<API_KEY, request, pc, path, variants, vi, ai, last, result, http,
          calls, upstream>>

---------------------------------------------------------------------------
(* Bounds of the model *)

\* longest raw query argument (in characters)
MaxLen == 2

\* longest variant list handed to _first_json directly
MaxVariants == 2

(* Program constants *)

\* `r.status_code < 300`
STATUS_LIMIT == 300

\* status=400 of the "... is required" responses
HTTP_BAD_REQUEST == 400

\* status of a flask Response built without status=
HTTP_OK == 200

\* status flask answers with when the view function raises
HTTP_INTERNAL_ERROR == 500

API_BASES == << "https://www.microburbs.com.au/report_generator/api",
                "https://www.microburbs.com.au/report_generator/api/sandbox" >>

STYLES == << "query", "xapikey", "bearer" >>

---------------------------------------------------------------------------
(* Strings *)

Chars == {" ", "B"}

Whitespace == {" "}

RawStrings == UNION { [1..n -> Chars] : n \in 0..MaxLen }

RECURSIVE lstrip(_)
lstrip(s) == IF s # << >> /\ Head(s) \in Whitespace THEN lstrip(Tail(s)) ELSE s

RECURSIVE rstrip(_)
rstrip(s) ==
    IF s # << >> /\ s[Len(s)] \in Whitespace
    THEN rstrip(SubSeq(s, 1, Len(s) - 1))
    ELSE s

\* the argument used as sent, without .strip()
strip_omitted(s) == s

\* str.strip()
strip(s) == rstrip(lstrip(s))

\* truth value of a str: `if API_KEY`, `if not suburb`, `if state`
Truthy(s) == s # << >>

EmptyMap == [k \in {} |-> << >>]

\* request.args.get(key, "") and (request.args.get(key) or "")
ArgsGet(args, key) == IF key \in DOMAIN args THEN args[key] ELSE << >>

\* q = dict(params); q[key] = value
DictSet(d, key, value) ==
    [k \in DOMAIN d \cup {key} |-> IF k = key THEN value ELSE d[k]]

---------------------------------------------------------------------------
(* JSON *)

Finite(m) == m.fin = "finite"

TEXT_PRICE == "{\"summary\":{\"median_price\":750000}}"
TEXT_PRICE_DUMPED == "{\"summary\": {\"median_price\": 750000}}"
TEXT_EMPTY_OBJECT == "{}"
TEXT_NAN == "{\"x\":NaN}"
TEXT_NAN_DUMPED == "{\"x\": NaN}"
TEXT_INFINITY == "{\"x\": -Infinity}"
TEXT_TRUNCATED == "{\"summary\":"

\* bodies upstream may send
Texts == {TEXT_PRICE, TEXT_EMPTY_OBJECT, TEXT_NAN, TEXT_INFINITY, TEXT_TRUNCATED}

OBJ_PRICE == << [key |-> "summary.median_price", fin |-> "finite", num |-> 750000] >>
OBJ_NAN == << [key |-> "x", fin |-> "nan", num |-> 0] >>
OBJ_INFINITY == << [key |-> "x", fin |-> "-inf", num |-> 0] >>

\* json.loads(text): python's parser accepts NaN and -Infinity
json_loads(text) ==
    CASE text \in {TEXT_PRICE, TEXT_PRICE_DUMPED} -> [raised |-> FALSE, value |-> OBJ_PRICE]
      [] text = TEXT_EMPTY_OBJECT -> [raised |-> FALSE, value |-> << >>]
      [] text \in {TEXT_NAN, TEXT_NAN_DUMPED} -> [raised |-> FALSE, value |-> OBJ_NAN]
      [] text = TEXT_INFINITY -> [raised |-> FALSE, value |-> OBJ_INFINITY]
      [] OTHER -> [raised |-> TRUE, value |-> << >>]

\* json.dumps(obj, allow_nan=...): ValueError on a non-finite float unless allowed
json_dumps(obj, allow_nan) ==
    IF ~allow_nan /\ \E i \in 1..Len(obj) : ~Finite(obj[i])
    THEN [raised |-> TRUE, text |-> ""]
    ELSE [raised |-> FALSE,
          text |-> CASE obj = OBJ_PRICE -> TEXT_PRICE_DUMPED
                     [] obj = OBJ_NAN -> TEXT_NAN_DUMPED
                     [] obj = OBJ_INFINITY -> TEXT_INFINITY
                     [] OTHER -> TEXT_EMPTY_OBJECT]

\* json.loads alone, without the allow_nan=False round trip
strict_json_lenient(text) == json_loads(text)

_strict_json(text) ==
    LET obj == json_loads(text)
        dumped == json_dumps(obj.value, FALSE)
    IN  IF obj.raised \/ dumped.raised
        THEN [raised |-> TRUE, value |-> << >>]
        ELSE json_loads(dumped.text)

---------------------------------------------------------------------------
(* HTTP helpers *)

CT_JSON == "application/json"
CT_JSON_MIXED == "Application/JSON; charset=utf-8"
CT_JSON_MIXED_LOWER == "application/json; charset=utf-8"
CT_HTML == "text/html"

\* response headers upstream may send: with or without a Content-Type
ResponseHeaders ==
    {[has_ct |-> FALSE, ct |-> ""]}
        \cup {[has_ct |-> TRUE, ct |-> c] : c \in {CT_JSON, CT_JSON_MIXED, CT_HTML}}

StatusCodes == {HTTP_OK, STATUS_LIMIT}

\* the answers upstream may give: a 200 answer with a JSON content type
\* carries any of the bodies, every other answer a JSON body or a cut one
Responses ==
    { r \in [status_code : StatusCodes, headers : ResponseHeaders, text : Texts] :
        \/ r.text \in {TEXT_PRICE, TEXT_TRUNCATED}
        \/ r.status_code = HTTP_OK /\ r.headers.has_ct /\ r.headers.ct # CT_HTML }

\* r.headers.get("Content-Type", "")
HeadersGet(h) == IF h.has_ct THEN h.ct ELSE ""

\* str.lower()
lower(s) == IF s = CT_JSON_MIXED THEN CT_JSON_MIXED_LOWER ELSE s

\* "application/json" in s
ContainsApplicationJson(s) == s \in {CT_JSON, CT_JSON_MIXED_LOWER}

\* the comprehension with its two for clauses swapped
attempts_style_outer ==
    [i \in 1..(Len(API_BASES) * Len(STYLES)) |->
        [base |-> API_BASES[((i - 1) % Len(API_BASES)) + 1],
         style |-> STYLES[((i - 1) \div Len(API_BASES)) + 1]]]

\* attempts = [(b, s) for b in API_BASES for s in ("query", "xapikey", "bearer")]
attempts ==
    [i \in 1..(Len(API_BASES) * Len(STYLES)) |->
        [base |-> API_BASES[((i - 1) \div Len(STYLES)) + 1],
         style |-> STYLES[((i - 1) % Len(STYLES)) + 1]]]

\* the request _call sends: url, query parameters q and headers
_call(p, params, base, style) ==
    [url |-> base \o p,
     q |-> IF style = "query" /\ Truthy(API_KEY)
           THEN DictSet(params, "access_token", API_KEY)
           ELSE params,
     headers |->
        CASE style = "xapikey" /\ Truthy(API_KEY) ->
                [Accept |-> "application/json", auth |-> "x-api-key", key |-> API_KEY]
          [] style = "bearer" /\ Truthy(API_KEY) ->
                [Accept |-> "application/json", auth |-> "Authorization: Bearer", key |-> API_KEY]
          [] OTHER ->
                [Accept |-> "application/json", auth |-> "", key |-> << >>]]

\* last = {"status": ..., "url": ..., "style": ..., "params": q, "content_type": ...}
Trace(status_code, url, style, q, content_type) ==
    [kind |-> "trace", status |-> status_code, url |-> url, style |-> style,
     params |-> q, content_type |-> content_type]

\* last = None
None == [kind |-> "none"]

\* {}
EmptyDict == [kind |-> "empty"]

\* the content type tested without .lower()
AcceptsCaseSensitive(status_code, content_type) ==
    status_code < STATUS_LIMIT /\ ContainsApplicationJson(content_type)

\* r.status_code < 300 and "application/json" in last["content_type"].lower()
Accepts(status_code, content_type) ==
    status_code < STATUS_LIMIT /\ ContainsApplicationJson(lower(content_type))

\* last, without `or {}`
LastNoDefault(l) == l

\* last or {}
LastOrEmpty(l) == IF l = None THEN EmptyDict ELSE l

---------------------------------------------------------------------------
(* What upstream did, recorded on upstream's side of the wire *)

\* the answer carries a JSON media type (media types are case-insensitive)
SentJsonType(h) == h.has_ct /\ h.ct \in {CT_JSON, CT_JSON_MIXED}

\* the body is strictly valid JSON: well formed, no NaN or Infinity token
SentStrictBody(text) == text \in {TEXT_PRICE, TEXT_EMPTY_OBJECT}

\* the JSON value a strictly valid body denotes
SentJson(text) == IF text = TEXT_PRICE THEN OBJ_PRICE ELSE << >>

\* "good": status < 300, JSON type, strict body; "badbody": status < 300,
\* JSON type, body malformed or non-finite; "rejected": anything else
AnswerKind(status_code, h, text) ==
    IF status_code < STATUS_LIMIT /\ SentJsonType(h)
    THEN IF SentStrictBody(text) THEN "good" ELSE "badbody"
    ELSE "rejected"

NoAnswer ==
    [latest |-> "none", status |-> 0, headers |-> [has_ct |-> FALSE, ct |-> ""],
     goodAt |-> 0, goodText |-> "", anyBadBody |-> FALSE, errors |-> 0]

Answered(u, n, status_code, h, text) ==
    LET kind == AnswerKind(status_code, h, text)
    IN  [u EXCEPT !.latest = kind, !.status = status_code, !.headers = h,
                  !.goodAt = IF kind = "good" /\ u.goodAt = 0 THEN n ELSE u.goodAt,
                  !.goodText = IF kind = "good" /\ u.goodAt = 0 THEN text ELSE u.goodText,
                  !.anyBadBody = u.anyBadBody \/ kind = "badbody"]

Failed(u) == [u EXCEPT !.latest = "error", !.errors = u.errors + 1]

---------------------------------------------------------------------------
(* The facade and the upstream client *)

\* the values MICROBURBS_API_KEY may have: unset, or a key
ApiKeys == {<< >>, <<"K">>}

NoResult == [ok |-> FALSE, data |-> << >>, trace |-> None]

NoHttp == [status |-> 0, kind |-> "none"]

\* `variants = [...]` in place of `variants += [...]` under `if state`
SuburbVariantsOverwritten(suburb, state) ==
    IF Truthy(state)
    THEN << [suburb |-> suburb, state |-> state],
            [suburb |-> suburb, state_code |-> state] >>
    ELSE << [suburb |-> suburb] >>

\* variants of suburb_market
SuburbVariants(suburb, state) ==
    << [suburb |-> suburb] >>
        \o IF Truthy(state)
           THEN << [suburb |-> suburb, state |-> state],
                   [suburb |-> suburb, state_code |-> state] >>
           ELSE << >>

\* variants of property_market
PropertyVariants(pid) == << [id |-> pid] >>

\* `if not suburb`, `if not pid`: the required parameter is missing
Missing(value) == ~Truthy(value)

\* variant lists a direct caller of _first_json may pass
VariantPool == { [id |-> <<"B">>], [suburb |-> <<"B">>] }

VariantLists == UNION { [1..n -> VariantPool] : n \in 0..MaxVariants }

Init ==
    /\ API_KEY \in ApiKeys
    /\ request = [handler |-> "none", args |-> EmptyMap]
    /\ pc = "idle"
    /\ path = ""
    /\ variants = << >>
    /\ vi = 1
    /\ ai = 1
    /\ last = None
    /\ result = NoResult
    /\ http = NoHttp
    /\ calls = << >>
    /\ upstream = NoAnswer

\* entry into _first_json(path, variants): attempts built, last = None
EnterFirstJson(p, vs) ==
    /\ path' = p
    /\ variants' = vs
    /\ vi' = 1
    /\ ai' = 1
    /\ last' = None
    /\ pc' = "loop"

\* Response(json.dumps({"error": ...}), status=400, ...)
BadRequest(message) ==
    /\ http' = [status |-> HTTP_BAD_REQUEST, kind |-> "error", error |-> message]
    /\ pc' = "responded"
    /\ UNCHANGED <<path, variants, vi, ai, last>>

\* GET /api/suburb/market, up to the call of _first_json
suburb_market ==
    /\ pc = "idle"
    /\ \E args \in UNION { [d -> RawStrings] : d \in SUBSET {"suburb", "state"} } :
          LET suburb == strip(ArgsGet(args, "suburb"))
              state == strip(ArgsGet(args, "state"))
          IN  /\ request' = [handler |-> "suburb", args |-> args]
              /\ IF Missing(suburb)
                 THEN BadRequest("suburb is required")
                 ELSE /\ EnterFirstJson("/suburb/market", SuburbVariants(suburb, state))
                      /\ UNCHANGED http
    /\ UNCHANGED <<API_KEY, result, calls, upstream>>

\* GET /api/property/market, up to the call of _first_json
property_market ==
    /\ pc = "idle"
    /\ \E args \in UNION { [d -> RawStrings] : d \in SUBSET {"id"} } :
          LET pid == strip(ArgsGet(args, "id"))
          IN  /\ request' = [handler |-> "property", args |-> args]
              /\ IF Missing(pid)
                 THEN BadRequest("id is required")
                 ELSE /\ EnterFirstJson("/property/market", PropertyVariants(pid))
                      /\ UNCHANGED http
    /\ UNCHANGED <<API_KEY, result, calls, upstream>>

\* _first_json called on its own with any variant list
first_json_direct ==
    /\ pc = "idle"
    /\ \E p \in {"/suburb/market", "/property/market"}, vs \in VariantLists :
          /\ request' = [handler |-> "direct", args |-> EmptyMap]
          /\ EnterFirstJson(p, vs)
    /\ UNCHANGED <<API_KEY, result, http, calls, upstream>>

\* the for loops step to the next (pv, (base, style))
Continue ==
    /\ IF ai < Len(attempts)
       THEN vi' = vi /\ ai' = ai + 1
       ELSE vi' = vi + 1 /\ ai' = 1
    /\ pc' = "loop"
    /\ UNCHANGED result

\* return {"ok": True, "data": ..., "trace": last}
ReturnOk(data, trace) ==
    /\ result' = [ok |-> TRUE, data |-> data, trace |-> trace]
    /\ pc' = "returned"
    /\ UNCHANGED <<vi, ai>>

\* the loop body with `last` assigned on the first attempt only
HandleKeepFirst(req, style, status_code, h, text) ==
    LET trace == Trace(status_code, req.url, style, req.q, HeadersGet(h))
        strict == _strict_json(text)
    IN  /\ last' = IF last = None THEN trace ELSE last
        /\ IF Accepts(status_code, trace.content_type) /\ ~strict.raised
           THEN ReturnOk(strict.value, last')
           ELSE Continue

\* what one loop body does with the response r of its _call
Handle(req, style, status_code, h, text) ==
    LET trace == Trace(status_code, req.url, style, req.q, HeadersGet(h))
        strict == _strict_json(text)
    IN  /\ last' = trace
        /\ IF Accepts(status_code, trace.content_type) /\ ~strict.raised
           THEN ReturnOk(strict.value, trace)
           ELSE Continue

\* the record of one _call as upstream receives it
Sent(req, style) ==
    [vi |-> vi, style |-> style, url |-> req.url, q |-> req.q, headers |-> req.headers]

\* one loop body: requests.get answers
CallAnswered ==
    /\ pc = "loop"
    /\ vi <= Len(variants)
    /\ LET a == attempts[ai]
           req == _call(path, variants[vi], a.base, a.style)
       IN  /\ calls' = Append(calls, Sent(req, a.style))
           /\ \E r \in Responses :
                 /\ upstream' = Answered(upstream, Len(calls) + 1,
                                         r.status_code, r.headers, r.text)
                 /\ Handle(req, a.style, r.status_code, r.headers, r.text)
    /\ UNCHANGED <<API_KEY, request, path, variants, http>>

\* the exception leaves the view function: flask answers 500
Unhandled ==
    /\ http' = [status |-> HTTP_INTERNAL_ERROR, kind |-> "server_error"]
    /\ pc' = "responded"

\* one loop body: requests.get raises (connection failure, timeout); the
\* call is outside the try block, so the exception leaves _first_json and,
\* under a facade endpoint, the view function
CallRaises ==
    /\ pc = "loop"
    /\ vi <= Len(variants)
    /\ LET a == attempts[ai]
           req == _call(path, variants[vi], a.base, a.style)
       IN  calls' = Append(calls, Sent(req, a.style))
    /\ upstream' = Failed(upstream)
    /\ IF request.handler \in {"suburb", "property"}
       THEN Unhandled
       ELSE pc' = "raised" /\ UNCHANGED http
    /\ UNCHANGED <<API_KEY, request, path, variants, vi, ai, last, result>>

\* return {"ok": False, "data": {}, "trace": last or {}}
LoopExit ==
    /\ pc = "loop"
    /\ vi > Len(variants)
    /\ result' = [ok |-> FALSE, data |-> << >>, trace |-> LastOrEmpty(last)]
    /\ pc' = "returned"
    /\ UNCHANGED <<API_KEY, request, path, variants, vi, ai, last, http, calls, upstream>>

\* out = result["data"] if result["ok"] else {}
Out(res) == IF res.ok THEN res.data ELSE << >>

\* Response(json.dumps({"__data": out, "__trace": result.get("trace")}), ...)
Respond ==
    /\ pc = "returned"
    /\ request.handler \in {"suburb", "property"}
    /\ http' = [status |-> HTTP_OK, kind |-> "envelope",
                data |-> Out(result), trace |-> result.trace]
    /\ pc' = "responded"
    /\ UNCHANGED <<API_KEY, request, path, variants, vi, ai, last, result, calls, upstream>>

Next ==
    \/ suburb_market
    \/ property_market
    \/ first_json_direct
    \/ CallAnswered
    \/ CallRaises
    \/ LoopExit
    \/ Respond

Spec == Init /\ [][Next]_vars

---------------------------------------------------------------------------
(* Vocabulary of the properties *)

PRODUCTION == "https://www.microburbs.com.au/report_generator/api"
SANDBOX == "https://www.microburbs.com.au/report_generator/api/sandbox"

\* the order the six base/style combinations are to be tried in
ExpectedOrder ==
    << [base |-> PRODUCTION, style |-> "query"],
       [base |-> PRODUCTION, style |-> "xapikey"],
       [base |-> PRODUCTION, style |-> "bearer"],
       [base |-> SANDBOX, style |-> "query"],
       [base |-> SANDBOX, style |-> "xapikey"],
       [base |-> SANDBOX, style |-> "bearer"] >>

PerVariant == Len(ExpectedOrder)

\* the variant and the base/style combination the n-th request belongs to
VariantOf(n) == ((n - 1) \div PerVariant) + 1
ComboOf(n) == ExpectedOrder[((n - 1) % PerVariant) + 1]

\* the Content-Type of the latest answer as the client reads it
SentContentType == IF upstream.headers.has_ct THEN upstream.headers.ct ELSE ""

\* _first_json has returned to its caller
Returned == pc = "returned" \/ (pc = "responded" /\ http.kind = "envelope")

FacadeCall == request.handler \in {"suburb", "property"}

\* the raw argument is there and has a character that is not whitespace
Present(key) ==
    /\ key \in DOMAIN request.args
    /\ \E i \in 1..Len(request.args[key]) : request.args[key][i] \notin Whitespace

RequiredKey == IF request.handler = "suburb" THEN "suburb" ELSE "id"

\* the trace of the latest attempt, built from what upstream saw and sent
LatestTrace ==
    LET c == calls[Len(calls)]
    IN  [kind |-> "trace", status |-> upstream.status, url |-> c.url,
         style |-> c.style, params |-> c.q, content_type |-> SentContentType]

\* the loop stands at the combination after the latest request
MovedOn == pc = "loop" /\ (vi - 1) * PerVariant + ai = Len(calls) + 1

---------------------------------------------------------------------------
(* Properties *)

\* C1: if the N-th request is the first that upstream answers with status
\* < 300, a JSON content type and a strictly valid body, _first_json returns
\* ok = true with that body's JSON as data and a trace whose url, style,
\* status and content_type are those of the N-th combination, and no request
\* after the N-th is made.
C1_FirstGoodAnswerWins ==
    upstream.goodAt # 0 =>
        /\ Returned
        /\ Len(calls) = upstream.goodAt
        /\ result.ok
        /\ result.data = SentJson(upstream.goodText)
        /\ result.trace.kind = "trace"
        /\ result.trace.url = ComboOf(upstream.goodAt).base \o path
        /\ result.trace.style = ComboOf(upstream.goodAt).style
        /\ result.trace.status = upstream.status
        /\ result.trace.content_type = SentContentType

\* the eighth request (second variant, production base, x-api-key) is the
\* first good one, after a body that failed strict re-encoding
C1_Witness ==
    /\ upstream.goodAt = 8
    /\ upstream.anyBadBody
    /\ upstream.goodText = TEXT_PRICE
    /\ upstream.headers.ct = CT_JSON_MIXED
    /\ result.ok

\* C2: the requests are issued variant by variant in list order, and for
\* each variant production base then sandbox base, and for each base query,
\* x-api-key, bearer; so the n-th request is always the n-th element of
\* that nested order and carries its variant's parameters.
C2_FixedNestedOrder ==
    \A n \in 1..Len(calls) :
        /\ VariantOf(n) <= Len(variants)
        /\ calls[n].vi = VariantOf(n)
        /\ calls[n].url = ComboOf(n).base \o path
        /\ calls[n].style = ComboOf(n).style
        /\ \A k \in DOMAIN variants[VariantOf(n)] :
              k \in DOMAIN calls[n].q /\ calls[n].q[k] = variants[VariantOf(n)][k]
        /\ calls[n].headers.auth =
              IF ~Truthy(API_KEY) \/ ComboOf(n).style = "query" THEN ""
              ELSE IF ComboOf(n).style = "xapikey" THEN "x-api-key"
              ELSE "Authorization: Bearer"

\* a third variant is reached, on the sandbox base
C2_Witness ==
    /\ Len(calls) = 17
    /\ Truthy(API_KEY)
    /\ calls[17].vi = 3
    /\ "state_code" \in DOMAIN calls[17].q

\* C3: when every answer has status >= 300 or a non-JSON content type,
\* _first_json returns ok = false, data = {} and the trace of the very last
\* combination (last variant, sandbox base, bearer style); with an empty
\* variant list no request is made and the trace is {}.
C3_NoneQualifies ==
    (Returned /\ upstream.goodAt = 0 /\ ~upstream.anyBadBody) =>
        /\ Len(calls) = PerVariant * Len(variants)
        /\ result.ok = FALSE
        /\ result.data = << >>
        /\ result.trace =
              IF variants = << >>
              THEN EmptyDict
              ELSE [kind |-> "trace", status |-> upstream.status,
                    url |-> SANDBOX \o path, style |-> "bearer",
                    params |-> variants[Len(variants)],
                    content_type |-> SentContentType]

\* two variants, twelve answers, none qualifying
C3_Witness ==
    /\ pc = "returned"
    /\ upstream.goodAt = 0
    /\ ~upstream.anyBadBody
    /\ Len(variants) = 2
    /\ Len(calls) = 12
    /\ result.trace.kind = "trace"

C5_AlwaysEnvelope ==
    (FacadeCall /\ Present(RequiredKey) /\ pc = "responded") =>
        /\ http.status = HTTP_OK
        /\ http.kind = "envelope"

\* C6: with the required parameter missing, empty or whitespace-only the
\* endpoint answers 400 with an "error" body and no upstream request is made.
C6_MissingParameter ==
    (FacadeCall /\ ~Present(RequiredKey)) =>
        /\ pc = "responded"
        /\ http.status = HTTP_BAD_REQUEST
        /\ http.kind = "error"
        /\ http.error = RequiredKey \o " is required"
        /\ calls = << >>
        /\ upstream = NoAnswer

\* a whitespace-only suburb, with a state given
C6_Witness ==
    /\ request.handler = "suburb"
    /\ DOMAIN request.args = {"suburb", "state"}
    /\ request.args["suburb"] = << " ", " " >>
    /\ request.args["state"] = << "B" >>
    /\ http.status = HTTP_BAD_REQUEST

\* C7: a network error on one attempt is not fatal: _first_json moves on to
\* the next combination and no error reaches the caller.
C7_NetworkErrorMovesOn ==
    upstream.errors > 0 =>
        /\ pc # "raised"
        /\ http.kind # "server_error"

\* C8: the trace of the envelope carries as params exactly the variant
\* mapping of the attempt used, whatever the auth style and whether or not
\* an API key is configured; the key never appears in it.
C8_TraceParamsAreTheVariant ==
    (pc = "responded" /\ http.kind = "envelope" /\ http.trace.kind = "trace") =>
        /\ http.trace.params = variants[VariantOf(Len(calls))]
        /\ "access_token" \notin DOMAIN http.trace.params

\* C9: suburb_market passes [{suburb}, {suburb, state}, {suburb, state_code}]
\* of the trimmed inputs when state is not blank and [{suburb}] otherwise;
\* property_market passes [{id}]; hence at most 18, 6 and 6 requests.
C9_Variants ==
    (FacadeCall /\ Present(RequiredKey)) =>
        LET suburb == strip(request.args[RequiredKey])
            state == strip(request.args["state"])
        IN  IF request.handler = "property"
            THEN /\ variants = << [id |-> suburb] >>
                 /\ path = "/property/market"
                 /\ Len(calls) <= 6
            ELSE /\ path = "/suburb/market"
                 /\ IF Present("state")
                    THEN /\ variants = << [suburb |-> suburb],
                                          [suburb |-> suburb, state |-> state],
                                          [suburb |-> suburb, state_code |-> state] >>
                         /\ Len(calls) <= 18
                    ELSE /\ variants = << [suburb |-> suburb] >>
                         /\ Len(calls) <= 6

\* a padded suburb with a padded state, all eighteen requests made
C9_Witness ==
    /\ request.handler = "suburb"
    /\ Present("state")
    /\ Len(variants) = 3
    /\ request.args["suburb"] = << " ", "B" >>
    /\ request.args["state"] = << "B", " " >>
    /\ variants[3] = [suburb |-> << "B" >>, state_code |-> << "B" >>]
    /\ Len(calls) = 18

\* C10: _first_json makes at most 6 x |variants| requests, each (variant,
\* base, style) position at most once, every step of the loop consumes one
\* position until it returns, and after every answered attempt `last` is
\* the trace of the most recent attempt only.
C10_BoundedSerialAttempts ==
    /\ Len(calls) <= PerVariant * Len(variants)
    /\ \A i, j \in 1..Len(calls) :
          i # j => <<calls[i].vi, calls[i].url, calls[i].style>>
                     # <<calls[j].vi, calls[j].url, calls[j].style>>
    /\ pc = "loop" => MovedOn /\ ENABLED (CallAnswered \/ LoopExit)
    /\ (calls # << >> /\ upstream.errors = 0) => last = LatestTrace
    /\ (calls = << >>) => last = None

\* the trace of the first attempt has been overwritten several times
C10_Witness ==
    /\ pc = "loop"
    /\ Len(calls) = 9
    /\ last.style = "bearer"
    /\ last.status = STATUS_LIMIT
    /\ upstream.errors = 0

====
